---- MODULE Spec2Model ----
(***************************************************************************)
(* Model of Project/Project.py: the template store (load_templates), the   *)
(* matcher (match_symbol) and the MainWindow polling cycle                 *)
(* (start_capture / stop_capture / capture_and_match).                     *)
(*                                                                         *)
(* Conventions                                                             *)
(*  - A Python str that the code takes apart or sorts (file names,         *)
(*    template names) is a sequence of character codes:                    *)
(*    "A.png" = <<65, 46, 112, 110, 103>>.                                 *)
(*  - Python None is the empty sequence NoneVal; `if x:` is x # NoneVal    *)
(*    (no file name, template name or region tuple is empty).              *)
(*  - A correlation score is an integer number of thousandths              *)
(*    (0.75 = 750, -1.0 = -1000).                                          *)
(*  - An image is its shape [h, w] (numpy shape[0], shape[1]); the value   *)
(*    cv2.minMaxLoc reports for a template is an input of the cycle.       *)
(***************************************************************************)
EXTENDS Integers, Sequences, FiniteSets, TLC

VARIABLES
    dir,              \* the listing of TEMPLATES_DIR: a set of files
    templates,        \* self.templates: the dict, as a sequence in insertion order
    loaded,           \* load_templates has returned
    region,           \* self.region: NoneVal or <<x, y, w, h>>
    overlay,          \* a SelectionOverlay is shown
    timer_active,     \* self.timer.isActive()
    select_btn,       \* self.select_btn.isEnabled()
    start_btn,        \* self.start_btn.isEnabled()
    stop_btn,         \* self.stop_btn.isEnabled()
    send_keys_cb,     \* self.send_keys_cb.isChecked()
    last_text_label,  \* what last_text_label shows
    last_cmd_label,   \* what last_cmd_label shows
    preview,          \* size (w, h) of the image last rendered to preview_label
    warned,           \* the "No region" message box has been shown
    app_alive,        \* the Qt application is still running
    cycle,            \* what the most recent capture_and_match did
    frame_gray,       \* SpecMatch, SpecResize: the frame handed to match_symbol
    max_vals,         \* SpecMatch, SpecResize: per template name, the max_val
                      \* cv2.minMaxLoc reports
    result            \* SpecMatch, SpecResize: what the match_symbol call did

vars == <<dir, templates, loaded, region, overlay, timer_active, select_btn,
          start_btn, stop_btn, send_keys_cb, last_text_label, last_cmd_label,
          preview, warned, app_alive, cycle, frame_gray, max_vals, result>>

NoneVal == <<>>

----------------------------------------------------------------------------
(* Bounds *)

MaxFiles == 6       \* files in the directory given to load_templates
MaxTemplates == 3   \* files in the directory behind the matcher's store
MaxDim == 4         \* largest frame / template height and width

----------------------------------------------------------------------------
(* CONFIG, lines 13-35 *)

THRESHOLD == 750

sym_A == <<65>>
sym_B == <<66>>
sym_C == <<67>>
sym_D == <<68>>
sym_E == <<69>>
sym_F == <<70>>
sym_G == <<71>>

COMMAND_MAP ==
    [s \in {sym_A, sym_B, sym_C, sym_D, sym_E, sym_F} |->
        CASE s = sym_A -> "LEFT"
          [] s = sym_B -> "RIGHT"
          [] s = sym_C -> "UP"
          [] s = sym_D -> "DOWN"
          [] s = sym_E -> "FRONT"
          [] s = sym_F -> "BACK"]

KEY_SEND_MAP ==
    [c \in {"LEFT", "RIGHT", "UP", "DOWN", "FRONT", "BACK"} |->
        CASE c = "LEFT" -> "left"
          [] c = "RIGHT" -> "right"
          [] c = "UP" -> "up"
          [] c = "DOWN" -> "down"
          [] c = "FRONT" -> "w"
          [] c = "BACK" -> "s"]

\* dict.get(k, default)
DictGet(d, k, default) == IF k \in DOMAIN d THEN d[k] ELSE default

----------------------------------------------------------------------------
(* Strings: str comparison, sorted(), os.path.splitext *)

DOT == 46

\* Python's str "<": by code point, a proper prefix first.
StrLess(a, b) ==
    \E i \in 1..Len(b) :
        /\ i - 1 <= Len(a)
        /\ \A j \in 1..(i - 1) : a[j] = b[j]
        /\ (i > Len(a) \/ a[i] < b[i])

\* sorted(os.listdir(folder)): the files in ascending file-name order.
RECURSIVE SortedFiles(_)
SortedFiles(S) ==
    IF S = {} THEN <<>>
    ELSE LET first == CHOOSE f \in S :
                          \A g \in S \ {f} : StrLess(f.fname, g.fname)
         IN  <<first>> \o SortedFiles(S \ {first})

\* os.path.splitext(fname): split at the last dot, unless only dots precede it.
splitext(p) ==
    LET dots == {i \in 1..Len(p) : p[i] = DOT}
    IN  IF dots = {} THEN <<p, <<>>>>
        ELSE LET dotIndex == CHOOSE i \in dots : \A k \in dots : k <= i
             IN  IF \E k \in 1..(dotIndex - 1) : p[k] # DOT
                 THEN <<SubSeq(p, 1, dotIndex - 1), SubSeq(p, dotIndex, Len(p))>>
                 ELSE <<p, <<>>>>

----------------------------------------------------------------------------
(* load_templates, lines 48-59 *)

\* templates[name] = img: a present key keeps its place and gets the new value.
DictSet(d, name, img) ==
    IF \E i \in 1..Len(d) : d[i].name = name
    THEN [i \in 1..Len(d) |->
             IF d[i].name = name THEN [name |-> name, img |-> img] ELSE d[i]]
    ELSE Append(d, [name |-> name, img |-> img])

\* cv2.imread(path, IMREAD_GRAYSCALE) then cv2.Canny: None for a file that does
\* not decode, else a 2-D image of the file's height and width.
\* (The field `none` says the result is None.)
imread(f) ==
    IF f.decodable
    THEN [none |-> FALSE, src |-> f.fname, h |-> f.h, w |-> f.w]
    ELSE [none |-> TRUE, src |-> f.fname, h |-> 0, w |-> 0]

\* Lines 51-58 with the file name, extension included, as the key.
load_step_keep_ext(acc, f) ==
    LET img == imread(f)
    IN  IF img.none THEN acc ELSE DictSet(acc, f.fname, img)

\* The body of the for loop, lines 51-58.
load_step(acc, f) ==
    LET name == splitext(f.fname)[1]
        img  == imread(f)
    IN  IF img.none THEN acc ELSE DictSet(acc, name, img)

RECURSIVE load_loop(_, _, _)
load_loop(fs, i, acc) ==
    IF i > Len(fs) THEN acc ELSE load_loop(fs, i + 1, load_step(acc, fs[i]))

load_templates(folder) == load_loop(SortedFiles(folder), 1, <<>>)

----------------------------------------------------------------------------
(* match_symbol, lines 61-83 *)

\* Lines 67-72: the template handed to cv2.matchTemplate.  The Python floats
\* scale = min(fh/th, fw/tw) and int(t * scale) are computed exactly, as the
\* quotient fh/th or fw/tw (whichever is smaller) and a floor; for the heights
\* and widths of this model (up to 8) IEEE double arithmetic gives these values.
needs_resize(tmpl, frame) == tmpl.h > frame.h \/ tmpl.w > frame.w

scale(tmpl, frame) ==
    IF frame.h * tmpl.w <= frame.w * tmpl.h
    THEN [num |-> frame.h, den |-> tmpl.h]
    ELSE [num |-> frame.w, den |-> tmpl.w]

new_size(tmpl, frame) ==
    LET s == scale(tmpl, frame)
    IN  [w |-> (tmpl.w * s.num) \div s.den, h |-> (tmpl.h * s.num) \div s.den]

\* cv2.resize(src, (w, h)) raises cv2.error when w or h is 0.
resize_raises(dsize) == dsize.w <= 0 \/ dsize.h <= 0

\* Lines 77-79 with ">=": the last template of equal score wins.
better_last_wins(max_val, best_score) == max_val >= best_score

\* Lines 77-79.
better(max_val, best_score) == max_val > best_score

\* Line 81 with ">": a score equal to THRESHOLD is rejected.
accepted_strict(best_score) == best_score > THRESHOLD

\* Line 81.
accepted(best_score) == best_score >= THRESHOLD

\* The for loop of lines 65-79 from template i on, then lines 81-83.
\*   evaluated : the templates handed to cv2.matchTemplate, in order
\*   resizes   : the sizes handed to cv2.resize, in order
RECURSIVE match_loop(_, _, _, _, _, _, _)
match_loop(frame, tmpls, mv, i, best_name, best_score, trace) ==
    IF i > Len(tmpls)
    THEN [status    |-> "ok",
          symbol    |-> IF accepted(best_score) THEN best_name ELSE NoneVal,
          score     |-> best_score,
          evaluated |-> trace.evaluated,
          resizes   |-> trace.resizes]
    ELSE LET name  == tmpls[i].name
             tmpl  == tmpls[i].img
             dsize == new_size(tmpl, frame)
         IN  IF needs_resize(tmpl, frame) /\ resize_raises(dsize)
             THEN [status    |-> "raise",
                   symbol    |-> NoneVal,
                   score     |-> best_score,
                   evaluated |-> trace.evaluated,
                   resizes   |-> Append(trace.resizes, dsize)]
             ELSE LET used == IF needs_resize(tmpl, frame)
                              THEN [name |-> name, resized |-> TRUE,
                                    h |-> dsize.h, w |-> dsize.w]
                              ELSE [name |-> name, resized |-> FALSE,
                                    h |-> tmpl.h, w |-> tmpl.w]
                      max_val == mv[name]
                      tr == [evaluated |-> Append(trace.evaluated, used),
                             resizes   |-> IF used.resized
                                           THEN Append(trace.resizes, dsize)
                                           ELSE trace.resizes]
                  IN  IF better(max_val, best_score)
                      THEN match_loop(frame, tmpls, mv, i + 1, name, max_val, tr)
                      ELSE match_loop(frame, tmpls, mv, i + 1, best_name,
                                      best_score, tr)

match_symbol(frame, tmpls, mv) ==
    match_loop(frame, tmpls, mv, 1, NoneVal, -1000,
               [evaluated |-> <<>>, resizes |-> <<>>])

\* No match_symbol call yet.
NoResult ==
    [status |-> "none", symbol |-> NoneVal, score |-> -1000,
     evaluated |-> <<>>, resizes |-> <<>>]

Names(tmpls) == {tmpls[i].name : i \in 1..Len(tmpls)}

----------------------------------------------------------------------------
(* File names of the modelled template directories *)

fn_A_png     == <<65, 46, 112, 110, 103>>                      \* "A.png"
fn_A_jpg     == <<65, 46, 106, 112, 103>>                      \* "A.jpg"
fn_A_jpg_png == <<65, 46, 106, 112, 103, 46, 112, 110, 103>>   \* "A.jpg.png"
fn_A_1_png   == <<65, 45, 49, 46, 112, 110, 103>>              \* "A-1.png"
fn_B_png     == <<66, 46, 112, 110, 103>>                      \* "B.png"
fn_G_png     == <<71, 46, 112, 110, 103>>                      \* "G.png"
fn_dot_png   == <<46, 112, 110, 103>>                          \* ".png"
fn_notes     == <<110, 111, 116, 101, 115>>                    \* "notes"

FileNames ==
    {fn_A_png, fn_A_jpg, fn_A_jpg_png, fn_A_1_png, fn_B_png, fn_G_png,
     fn_dot_png, fn_notes}

File(fname, decodable, h, w) ==
    [fname |-> fname, decodable |-> decodable, h |-> h, w |-> w]

\* os.listdir never names a file twice.
IsListing(d) == \A f, g \in d : f.fname = g.fname => f = g

Shapes == [h : 1..MaxDim, w : 1..MaxDim]

----------------------------------------------------------------------------
(* The MainWindow fields right after __init__, lines 129-186 *)

Label(kind, symbol, score, reg) ==
    [kind |-> kind, symbol |-> symbol, score |-> score, region |-> reg]

NoCycle ==
    [outcome |-> "none", escaped |-> FALSE, symbol |-> NoneVal, score |-> 0,
     cmd |-> "", checked |-> FALSE, pressed |-> <<>>, press_raised |-> FALSE,
     rendered |-> FALSE]

WindowInit ==
    /\ region = NoneVal
    /\ overlay = FALSE
    /\ timer_active = FALSE
    /\ select_btn = TRUE
    /\ start_btn = TRUE
    /\ stop_btn = FALSE
    /\ send_keys_cb = FALSE
    /\ last_text_label = Label("empty", NoneVal, 0, NoneVal)
    /\ last_cmd_label = ""
    /\ preview = NoneVal
    /\ warned = FALSE
    /\ app_alive = TRUE
    /\ cycle = NoCycle

window == <<region, overlay, timer_active, select_btn, start_btn, stop_btn,
            send_keys_cb, last_text_label, last_cmd_label, preview, warned,
            app_alive, cycle>>

----------------------------------------------------------------------------
(* MainWindow: open_selector, set_region, start_capture, stop_capture *)

\* The regions (x, y, w, h) SelectionOverlay.mouseReleaseEvent can emit: a
\* normalized QRect, so w >= 1 and h >= 1 (a click without a drag gives 1 x 1).
Regions == {<<0, 0, 1, 1>>, <<0, 0, 2, 2>>, <<0, 0, 3, 2>>}

\* Lines 188-191; the Select button emits clicked only while enabled.
open_selector ==
    /\ app_alive
    /\ select_btn
    /\ overlay' = TRUE
    /\ UNCHANGED <<dir, templates, loaded, region, timer_active, select_btn,
                   start_btn, stop_btn, send_keys_cb, last_text_label,
                   last_cmd_label, preview, warned, app_alive, cycle,
                   frame_gray, max_vals, result>>

\* mouseReleaseEvent, lines 120-125, and the set_region slot, lines 193-196.
set_region ==
    /\ app_alive
    /\ overlay
    /\ \E r \in Regions :
           /\ region' = r
           /\ last_text_label' = Label("region", NoneVal, 0, r)
    /\ overlay' = FALSE
    /\ UNCHANGED <<dir, templates, loaded, timer_active, select_btn, start_btn,
                   stop_btn, send_keys_cb, last_cmd_label, preview, warned,
                   app_alive, cycle, frame_gray, max_vals, result>>

\* Lines 198-206 without the `if not self.region` check.
start_capture_unchecked ==
    /\ app_alive
    /\ start_btn
    /\ timer_active' = TRUE
    /\ start_btn' = FALSE
    /\ stop_btn' = TRUE
    /\ select_btn' = FALSE
    /\ UNCHANGED <<dir, templates, loaded, region, overlay, send_keys_cb,
                   last_text_label, last_cmd_label, preview, warned, app_alive,
                   cycle, frame_gray, max_vals, result>>

\* Lines 198-206.
start_capture ==
    /\ app_alive
    /\ start_btn
    /\ IF region = NoneVal
       THEN /\ warned' = TRUE
            /\ UNCHANGED <<timer_active, start_btn, stop_btn, select_btn>>
       ELSE /\ timer_active' = TRUE
            /\ start_btn' = FALSE
            /\ stop_btn' = TRUE
            /\ select_btn' = FALSE
            /\ UNCHANGED warned
    /\ UNCHANGED <<dir, templates, loaded, region, overlay, send_keys_cb,
                   last_text_label, last_cmd_label, preview, app_alive, cycle,
                   frame_gray, max_vals, result>>

\* Lines 208-212.
stop_capture ==
    /\ app_alive
    /\ stop_btn
    /\ timer_active' = FALSE
    /\ start_btn' = TRUE
    /\ stop_btn' = FALSE
    /\ select_btn' = TRUE
    /\ UNCHANGED <<dir, templates, loaded, region, overlay, send_keys_cb,
                   last_text_label, last_cmd_label, preview, warned, app_alive,
                   cycle, frame_gray, max_vals, result>>

\* The user toggles the "Send keypress via pyautogui" check box, lines 158-160.
toggle_send_keys ==
    /\ app_alive
    /\ send_keys_cb' = ~send_keys_cb
    /\ UNCHANGED <<dir, templates, loaded, region, overlay, timer_active,
                   select_btn, start_btn, stop_btn, last_text_label,
                   last_cmd_label, preview, warned, app_alive, cycle,
                   frame_gray, max_vals, result>>

----------------------------------------------------------------------------
(* MainWindow.capture_and_match, lines 214-244 *)

\* Lines 215-222: sct.grab of the region, then preprocess: a 2-D image of the
\* region's height and width.
grab_gray(reg) == [h |-> reg[4], w |-> reg[3]]

\* f"{score:.2f}": the score in hundredths, rounded to nearest.
format_2f(score) == (score + 5) \div 10

\* Line 227 with "" as the default.
resolve_command_empty(symbol) == DictGet(COMMAND_MAP, symbol, "")

\* Line 227.
resolve_command(symbol) == DictGet(COMMAND_MAP, symbol, "(none)")

\* Line 230 without the check box.
should_press_unchecked(checked, cmd) == cmd \in DOMAIN KEY_SEND_MAP

\* Line 230.
should_press(checked, cmd) == checked /\ cmd \in DOMAIN KEY_SEND_MAP

\* Lines 231-234 without the try: a raising press leaves the slot.
press_escapes_uncaught(press_raises) == press_raises

\* Lines 231-234: `except Exception` catches whatever pyautogui.press raises.
press_escapes(press_raises) == FALSE

\* Line 240: the size (w, h) of the preview image.
preview_size(gray) ==
    LET ph == (480 * gray.h) \div gray.w
    IN  <<480, IF ph > 1 THEN ph ELSE 1>>

\* An exception leaves capture_and_match at the statement that raised it: what
\* the slot had set so far stays, the rest of the body does not run.
Escaped(outcome, checked) ==
    [cycle |-> [outcome |-> outcome, escaped |-> TRUE, symbol |-> NoneVal,
                score |-> 0, cmd |-> "", checked |-> checked,
                pressed |-> <<>>, press_raised |-> FALSE, rendered |-> FALSE],
     text    |-> last_text_label,
     command |-> last_cmd_label,
     preview |-> preview]

\* One run of the slot: grab_raises says sct.grab raises, mv gives the max_val
\* of each template, press_raises says pyautogui.press raises.
run_cycle(grab_raises, mv, press_raises) ==
    IF region = NoneVal THEN Escaped("unpack_error", send_keys_cb)
    ELSE IF grab_raises THEN Escaped("capture_error", send_keys_cb)
    ELSE
      LET gray == grab_gray(region)
          m    == match_symbol(gray, templates, mv)
      IN  IF m.status = "raise" THEN Escaped("match_error", send_keys_cb)
          ELSE IF m.symbol # NoneVal
          THEN LET cmd     == resolve_command(m.symbol)
                   press   == should_press(send_keys_cb, cmd)
                   raised  == press /\ press_raises
                   escapes == raised /\ press_escapes(press_raises)
               IN  [cycle |-> [outcome |-> IF escapes THEN "press_error" ELSE "ok",
                               escaped |-> escapes,
                               symbol |-> m.symbol, score |-> m.score,
                               cmd |-> cmd, checked |-> send_keys_cb,
                               pressed |-> IF press THEN <<KEY_SEND_MAP[cmd]>>
                                           ELSE <<>>,
                               press_raised |-> raised,
                               rendered |-> ~escapes],
                    text    |-> Label("symbol", m.symbol, format_2f(m.score), NoneVal),
                    command |-> cmd,
                    preview |-> IF escapes THEN preview ELSE preview_size(gray)]
          ELSE [cycle |-> [outcome |-> "ok", escaped |-> FALSE,
                           symbol |-> NoneVal, score |-> m.score,
                           cmd |-> "(none)", checked |-> send_keys_cb,
                           pressed |-> <<>>, press_raised |-> FALSE,
                           rendered |-> TRUE],
                text    |-> Label("no_match", NoneVal, 0, NoneVal),
                command |-> "(none)",
                preview |-> preview_size(gray)]

CycleScores == {500, 800, 900}

\* What one timer tick can meet: a failing grab, or a frame with its scores
\* and a key press that succeeds or raises.
CycleInputs ==
    {[grab_raises |-> TRUE, mv |-> <<>>, press_raises |-> FALSE]}
    \cup {[grab_raises |-> FALSE, mv |-> m, press_raises |-> p] :
             m \in [Names(templates) -> CycleScores], p \in BOOLEAN}

\* The timeout slot of the polling timer.  An exception that leaves a PyQt5
\* slot ends the application (PyQt5 >= 5.5 calls qFatal) or is printed and
\* dropped (older PyQt5, or an except hook), depending on the installation.
capture_and_match ==
    /\ app_alive
    /\ timer_active
    /\ \E inp \in CycleInputs :
           LET c == run_cycle(inp.grab_raises, inp.mv, inp.press_raises)
           IN  /\ cycle' = c.cycle
               /\ last_text_label' = c.text
               /\ last_cmd_label' = c.command
               /\ preview' = c.preview
               /\ app_alive' \in IF c.cycle.escaped THEN BOOLEAN ELSE {TRUE}
    /\ UNCHANGED <<dir, templates, loaded, region, overlay, timer_active,
                   select_btn, start_btn, stop_btn, send_keys_cb, warned,
                   frame_gray, max_vals, result>>

----------------------------------------------------------------------------
(* Spec: the application, from MainWindow.__init__ on *)

MainFiles ==
    {File(fn_A_png, TRUE, 2, 2), File(fn_B_png, TRUE, 1, 2),
     File(fn_G_png, TRUE, 2, 2)}

Init ==
    /\ dir \in SUBSET MainFiles
    /\ templates = load_templates(dir)
    /\ loaded = TRUE
    /\ frame_gray = [h |-> 2, w |-> 2]
    /\ max_vals = <<>>
    /\ result = NoResult
    /\ WindowInit

Next ==
    \/ open_selector
    \/ set_region
    \/ start_capture
    \/ stop_capture
    \/ toggle_send_keys
    \/ capture_and_match

Spec == Init /\ [][Next]_vars

----------------------------------------------------------------------------
(* SpecLoad: load_templates over every listing of up to MaxFiles files *)

LoadFiles == {File(n, d, 2, 2) : n \in FileNames, d \in BOOLEAN}

LoadDirs == {d \in SUBSET LoadFiles : Cardinality(d) <= MaxFiles /\ IsListing(d)}

InitLoad ==
    /\ dir \in LoadDirs
    /\ templates = <<>>
    /\ loaded = FALSE
    /\ frame_gray = [h |-> 2, w |-> 2]
    /\ max_vals = <<>>
    /\ result = NoResult
    /\ WindowInit

\* self.templates = load_templates(TEMPLATES_DIR), line 186.
LoadTemplates ==
    /\ ~loaded
    /\ templates' = load_templates(dir)
    /\ loaded' = TRUE
    /\ UNCHANGED <<dir, frame_gray, max_vals, result, window>>

NextLoad == LoadTemplates

SpecLoad == InitLoad /\ [][NextLoad]_vars

----------------------------------------------------------------------------
(* SpecMatch: match_symbol over every store and every assignment of scores *)

Scores == {-1000, 500, 749, 750, 800, 900, 1000}

MatchFiles == {File(n, TRUE, 2, 2) : n \in {fn_A_png, fn_A_jpg, fn_B_png, fn_G_png}}

MatchDirs == {d \in SUBSET MatchFiles : Cardinality(d) <= MaxTemplates}

InitMatch ==
    /\ dir \in MatchDirs
    /\ templates = load_templates(dir)
    /\ loaded = TRUE
    /\ frame_gray = [h |-> 3, w |-> 3]
    /\ max_vals = <<>>
    /\ result = NoResult
    /\ WindowInit

MatchScores ==
    \E mv \in [Names(templates) -> Scores] :
        /\ result.status = "none"
        /\ max_vals' = mv
        /\ result' = match_symbol(frame_gray, templates, mv)
        /\ UNCHANGED <<dir, templates, loaded, frame_gray, window>>

NextMatch == MatchScores

SpecMatch == InitMatch /\ [][NextMatch]_vars

----------------------------------------------------------------------------
(* SpecResize: match_symbol over every frame shape and template shape *)

ResizeDirs ==
    {{File(fn_A_png, TRUE, a.h, a.w)} : a \in Shapes}
    \cup {{File(fn_B_png, TRUE, b.h, b.w)} : b \in Shapes}
    \cup {{File(fn_A_png, TRUE, a.h, a.w), File(fn_B_png, TRUE, b.h, b.w)} :
             a \in Shapes, b \in Shapes}

InitResize ==
    /\ dir \in ResizeDirs
    /\ templates = load_templates(dir)
    /\ loaded = TRUE
    /\ frame_gray \in Shapes
    /\ max_vals = <<>>
    /\ result = NoResult
    /\ WindowInit

MatchShapes ==
    LET mv == [n \in Names(templates) |-> 800]
    IN  /\ result.status = "none"
        /\ max_vals' = mv
        /\ result' = match_symbol(frame_gray, templates, mv)
        /\ UNCHANGED <<dir, templates, loaded, frame_gray, window>>

NextResize == MatchShapes

SpecResize == InitResize /\ [][NextResize]_vars

----------------------------------------------------------------------------
(* Claims about load_templates (SpecLoad) *)

Decodable(d) == {f \in d : f.decodable}

\* The file name with its extension stripped: the part before the last dot,
\* where a dot that only dots precede starts no extension.
BaseName(p) ==
    IF \E i \in 2..Len(p) : p[i] = 46 /\ \E k \in 1..(i - 1) : p[k] # 46
    THEN LET i == CHOOSE i \in 2..Len(p) :
                      /\ p[i] = 46
                      /\ \A k \in (i + 1)..Len(p) : p[k] # 46
         IN  SubSeq(p, 1, i - 1)
    ELSE p

\* The decodable files of base name n.
FilesNamed(d, n) == {f \in Decodable(d) : BaseName(f.fname) = n}

FirstNamed(d, n) ==
    CHOOSE f \in FilesNamed(d, n) :
        \A g \in FilesNamed(d, n) \ {f} : StrLess(f.fname, g.fname)

LastNamed(d, n) ==
    CHOOSE f \in FilesNamed(d, n) :
        \A g \in FilesNamed(d, n) \ {f} : StrLess(g.fname, f.fname)

DistinctBaseNames(d) ==
    \A f, g \in Decodable(d) : BaseName(f.fname) = BaseName(g.fname) => f = g

\* C8 as stated: load_templates returns exactly one entry per decodable file,
\* each named by its base name, in lexicographic file-name order.
C8_OneEntryPerDecodableFile ==
    loaded =>
        LET fs == SortedFiles(Decodable(dir))
        IN  /\ Len(templates) = Len(fs)
            /\ \A i \in 1..Len(templates) :
                   /\ templates[i].name = BaseName(fs[i].fname)
                   /\ templates[i].img.src = fs[i].fname

\* C8 amended: load_templates skips every undecodable file and returns exactly
\* one entry per distinct base name of the decodable files; the entry holds the
\* image of the last file (in file-name order) of that base name and stands at
\* the place of the first; so when the decodable files have distinct base names
\* there is exactly one entry per decodable file, in file-name order.
C8_OneEntryPerBaseName ==
    loaded =>
        /\ Names(templates) = {BaseName(f.fname) : f \in Decodable(dir)}
        /\ \A i, j \in 1..Len(templates) :
               i < j => /\ templates[i].name # templates[j].name
                        /\ StrLess(FirstNamed(dir, templates[i].name).fname,
                                   FirstNamed(dir, templates[j].name).fname)
        /\ \A i \in 1..Len(templates) :
               LET f == LastNamed(dir, templates[i].name)
               IN  templates[i].img = [none |-> FALSE, src |-> f.fname,
                                       h |-> f.h, w |-> f.w]
        /\ DistinctBaseNames(dir) => C8_OneEntryPerDecodableFile

\* One undecodable file and five decodable files of distinct base names give
\* five entries.
C8_Witness ==
    /\ loaded
    /\ Cardinality(dir) = 6
    /\ Cardinality(Decodable(dir)) = 5
    /\ DistinctBaseNames(dir)
    /\ Len(templates) = 5

----------------------------------------------------------------------------
(* Claims about match_symbol's decision (SpecMatch) *)

MaxScore(mv) == CHOOSE m \in {mv[n] : n \in DOMAIN mv} : \A n \in DOMAIN mv : mv[n] <= m

\* C1: match_symbol returns a symbol exactly when the maximum per-template
\* score is at least THRESHOLD, and the score it returns is that maximum
\* whether the match is accepted or rejected.
C1_ThresholdOnTrueMaximum ==
    result.status = "ok" =>
        /\ (result.symbol # NoneVal) <=> (\E n \in Names(templates) : max_vals[n] >= 750)
        /\ Names(templates) # {} => result.score = MaxScore(max_vals)

\* A rejected match of two or more templates reports the true maximum 0.749.
C1_Witness ==
    /\ result.status = "ok"
    /\ Len(templates) >= 2
    /\ result.symbol = NoneVal
    /\ result.score = 749
    /\ \E n \in Names(templates) : max_vals[n] = 500

\* C2: a returned symbol is the first template, in the store's iteration
\* order, among those of maximum score.
C2_FirstOfMaximum ==
    (result.status = "ok" /\ result.symbol # NoneVal) =>
        \E i \in 1..Len(templates) :
            /\ templates[i].name = result.symbol
            /\ \A j \in 1..Len(templates) :
                   max_vals[templates[j].name] <= max_vals[templates[i].name]
            /\ \A j \in 1..(i - 1) :
                   max_vals[templates[j].name] < max_vals[templates[i].name]

\* Three templates, the last two tied at the maximum 0.9 above the first's
\* 0.8: the second is returned.
C2_Witness ==
    /\ result.status = "ok"
    /\ Len(templates) = 3
    /\ max_vals[templates[1].name] = 800
    /\ max_vals[templates[2].name] = 900
    /\ max_vals[templates[3].name] = 900
    /\ result.symbol = templates[2].name

----------------------------------------------------------------------------
(* Claims about match_symbol's resizing (SpecResize) *)

Fits(tmpl, frame) == tmpl.h <= frame.h /\ tmpl.w <= frame.w

\* C3: match_symbol correlates every template: unscaled when it fits the
\* frame, and otherwise resized to (int(tw*s), int(th*s)), s = min(fh/th, fw/tw),
\* which is no higher and no wider than the frame.
C3_EveryTemplateCorrelated ==
    result.status # "none" =>
        /\ result.status = "ok"
        /\ Len(result.evaluated) = Len(templates)
        /\ \A i \in 1..Len(result.evaluated) :
               LET t == templates[i].img
                   e == result.evaluated[i]
               IN  /\ e.name = templates[i].name
                   /\ Fits(t, frame_gray) => ~e.resized /\ e.h = t.h /\ e.w = t.w
                   /\ ~Fits(t, frame_gray) =>
                          /\ e.resized
                          /\ e.h <= frame_gray.h /\ e.w <= frame_gray.w
                          /\ \/ /\ t.w * frame_gray.h <= t.h * frame_gray.w
                                /\ e.w = (t.w * frame_gray.h) \div t.h
                                /\ e.h = (t.h * frame_gray.h) \div t.h
                             \/ /\ t.w * frame_gray.h >= t.h * frame_gray.w
                                /\ e.w = (t.w * frame_gray.w) \div t.w
                                /\ e.h = (t.h * frame_gray.w) \div t.w

\* C9: every size match_symbol hands to cv2.resize has width >= 1 and
\* height >= 1.
C9_ResizedSizePositive ==
    \A i \in 1..Len(result.resizes) :
        result.resizes[i].w >= 1 /\ result.resizes[i].h >= 1

----------------------------------------------------------------------------
(* Claims about the polling cycle (Spec) *)

\* C4: a cycle calls press exactly once, with KEY_SEND_MAP[COMMAND_MAP[symbol]],
\* when a symbol was recognized, the send-keys box is checked and the command
\* has a key; every other cycle calls it zero times.
C4_PressExactlyOnce ==
    cycle.outcome # "none" =>
        IF /\ cycle.symbol # NoneVal
           /\ cycle.checked
           /\ cycle.symbol \in DOMAIN COMMAND_MAP
           /\ COMMAND_MAP[cycle.symbol] \in DOMAIN KEY_SEND_MAP
        THEN cycle.pressed = <<KEY_SEND_MAP[COMMAND_MAP[cycle.symbol]]>>
        ELSE cycle.pressed = <<>>

\* Symbol A recognized with the box checked: "left" is pressed once.
C4_Witness ==
    /\ cycle.outcome = "ok"
    /\ cycle.symbol = sym_A
    /\ cycle.checked
    /\ cycle.pressed = <<"left">>

\* C5: a failing screen grab is handled inside capture_and_match: the cycle
\* ends with no symbol, no command and no key press, and the application and
\* its timer go on to the next cycle.
C5_CaptureFailureHandled ==
    cycle.outcome = "capture_error" =>
        /\ ~cycle.escaped
        /\ cycle.symbol = NoneVal
        /\ cycle.pressed = <<>>
        /\ last_text_label.kind = "no_match"
        /\ last_cmd_label = "(none)"
        /\ app_alive

\* C6: a raising press is caught inside capture_and_match: the slot runs on
\* to the preview, the press is not repeated, the timer stays active, and the
\* cycle leaves the window exactly as the same cycle with a succeeding press
\* does, so later cycles are not affected.
C6_PressErrorCaught ==
    [][(capture_and_match /\ cycle'.press_raised) =>
          /\ ~cycle'.escaped
          /\ cycle'.rendered
          /\ Len(cycle'.pressed) = 1
          /\ timer_active' /\ app_alive'
          /\ UNCHANGED <<templates, region, timer_active, select_btn,
                         start_btn, stop_btn, send_keys_cb>>
          /\ \E mv \in [Names(templates) -> CycleScores] :
                 LET c == run_cycle(FALSE, mv, FALSE)
                 IN  /\ ~c.cycle.press_raised
                     /\ c.cycle = [cycle' EXCEPT !.press_raised = FALSE]
                     /\ c.text = last_text_label'
                     /\ c.command = last_cmd_label'
                     /\ c.preview = preview'
    ]_vars

\* A cycle pressed a key, the press raised, and the preview was rendered.
C6_Witness ==
    /\ cycle.press_raised
    /\ cycle.pressed = <<"left">>
    /\ cycle.rendered
    /\ app_alive

\* C7: a recognized symbol without an entry in COMMAND_MAP resolves to
\* "(none)" without raising and without a key press even with the box
\* checked, and the cycle shows the symbol and its score, unlike a cycle that
\* recognized nothing.
C7_UnmappedSymbol ==
    [][(capture_and_match /\ cycle'.symbol # NoneVal
                          /\ cycle'.symbol \notin DOMAIN COMMAND_MAP) =>
          /\ ~cycle'.escaped
          /\ cycle'.cmd = "(none)"
          /\ last_cmd_label' = "(none)"
          /\ cycle'.pressed = <<>>
          /\ last_text_label'.kind = "symbol"
          /\ last_text_label'.symbol = cycle'.symbol
          /\ last_text_label'.score = (cycle'.score + 5) \div 10
          /\ last_text_label' # Label("no_match", NoneVal, 0, NoneVal)
    ]_vars

\* Symbol G recognized with the box checked: command "(none)", no press.
C7_Witness ==
    /\ cycle.outcome = "ok"
    /\ cycle.symbol = sym_G
    /\ cycle.checked
    /\ cycle.cmd = "(none)"
    /\ cycle.pressed = <<>>
    /\ last_text_label.symbol = sym_G

\* C10: the timer is active only if a region is set, and exactly when Stop is
\* enabled and Start and Select are disabled; start_capture without a region
\* leaves the timer stopped and the buttons as they were.
C10_TimerNeedsRegion ==
    /\ [](timer_active => region # NoneVal)
    /\ [](timer_active <=> (stop_btn /\ ~start_btn /\ ~select_btn))
    /\ [][(start_capture /\ region = NoneVal) =>
             /\ ~timer_active'
             /\ UNCHANGED <<select_btn, start_btn, stop_btn>>]_vars

\* Start was refused for want of a region, and later the timer runs with one.
C10_Witness ==
    /\ warned
    /\ timer_active
    /\ region # NoneVal
    /\ stop_btn /\ ~start_btn /\ ~select_btn

====
